---------------------------- MODULE Spec2Model ----------------------------
(***************************************************************************)
(* State-machine model of the land-analysis application:                   *)
(*   - AppComponent        (src/src/app.component.ts, first class, l.15-224)*)
(*   - GeminiService       (src/src/services/gemini.service.ts)             *)
(*   - ThreeDViewComponent (src/unnamed/part_000, the variant of the 3D     *)
(*                          view that takes the polygon of the first class) *)
(*                                                                         *)
(* Lengths in metres are kept in decimetres (the resolution toFixed(1)     *)
(* gives a derived dimension); canvas coordinates, normalised to 0..1 in   *)
(* the code, are kept in units of 1/GridUnits; heights of the 3D scene are  *)
(* kept in millimetres.                                                    *)
(*                                                                         *)
(* The methods of the component are public and read no guard on step, so   *)
(* every method is enabled in every state; an analysis is split at its     *)
(* await into analyzePlot (the call) and replyArrives (the continuation),  *)
(* and several analyses may be in flight.                                  *)
(* An input of the 3D view is written by the parent (inputChanges) and the  *)
(* effect of the view runs afterwards (runEffect), once for all the inputs *)
(* written since its last run.                                             *)
(*                                                                         *)
(* Specifications:                                                         *)
(*   Spec          the application flow                                    *)
(*   SpecFloor     the floor selector over the results the flow stores     *)
(*   SpecDraw      the sketch surface                                      *)
(*   SpecNumeric   the numeric form and every reply                        *)
(*   SpecNeighbors the neighbour-floor fields and the request              *)
(*   SpecTimer     the loading-message timer                               *)
(*   SpecView      the 3D view                                             *)
(*   SpecConv      the bounding-box conversion alone                       *)
(***************************************************************************)
EXTENDS Integers, Sequences, FiniteSets, TLC

VARIABLES
    step,               \* signal step: "input" | "loading" | "result"
    inputType,          \* signal inputType: "numeric" | "draw"
    viewMode,           \* signal viewMode
    landWidth,          \* signal landWidth  (decimetres)
    landDepth,          \* signal landDepth  (decimetres)
    neighborEastFloors, \* signal neighborEastFloors
    neighborWestFloors, \* signal neighborWestFloors
    polygonPoints,      \* signal polygonPoints: sequence of [x, y]
    analysisResult,     \* signal analysisResult: a JS value (NullValue = null)
    errorMessage,       \* signal errorMessage: a message or NoMessage (null)
    selectedFloor,      \* signal selectedFloor
    pending,            \* model requests in flight: the arguments of each
                        \* analyzeLand call whose generateContent has not replied
    lastOp,             \* history: the operation that produced this state, with
                        \* the reply it consumed and the error analyzeLand threw
    probe,              \* history: last measurement of the bounding-box conversion
    timers,             \* the intervals setInterval has started and clearInterval
                        \* has not cleared: interval id -> messageIndex of its callback
    loadingInterval,    \* field loadingInterval: an interval id, NoInterval = undefined
    currentLoadingMessage, \* signal currentLoadingMessage, as an index of loadingMessages
    latestRequest,      \* history: what became of the request issued last: "none"
                        \* issued, "in flight", "stored" (its reply is the
                        \* analysisResult), or "over" (it failed, or its reply
                        \* was cleared or replaced)
    stale,              \* history: how many of the requests in flight (the first
                        \* ones of pending) were issued before the last startOver
    viewInputs,         \* ThreeDViewComponent: its input signals, as a record
    sceneReady,         \* ThreeDViewComponent: initThreeJs has run (this.scene is set)
    roomGroup,          \* ThreeDViewComponent: the children of this.roomGroup, in order
    rebuilds,           \* history: how many times createScene has run
    resources,          \* history: the rendering resources acquired and not released
    tracksNeighbors,    \* the effect read the neighbour-floor inputs on its last run
    destroyed,          \* ngOnDestroy has run
    effectDirty,        \* the effect of the constructor is scheduled to run
    sceneInputs,        \* history: the input values the last createScene read
    writes              \* history: how many times an input changed

\* the loading-message timer of the application
timerVars == <<timers, loadingInterval, currentLoadingMessage>>

\* the 3D view component
viewVars == <<viewInputs, sceneReady, roomGroup, rebuilds, resources, tracksNeighbors,
              destroyed, effectDirty, sceneInputs, writes>>

\* the application component, but for lastOp
appVars == <<step, inputType, viewMode, landWidth, landDepth, neighborEastFloors,
             neighborWestFloors, polygonPoints, analysisResult, errorMessage,
             selectedFloor, pending, probe, timerVars, stale, latestRequest>>

vars == <<appVars, lastOp, viewVars>>

---------------------------------------------------------------------------
(* Bounds of the model *)

\* longest polygon the canvas clicks build
MaxPoints == 4
\* analyses whose model call may be in flight at once
MaxInFlight == 2
\* largest floor index the floor selector is given
MaxSelectedFloor == 2
\* largest numerator of a scale factor applied to a polygon
MaxScaleNum == 3
\* loading-message intervals that may be active at once
MaxTimers == 2
\* largest totalFloors of a result given to the 3D view
MaxFloors == 3
\* how many times the 3D view builds its scene
MaxRebuilds == 2
\* how many times the parent changes an input of the 3D view
MaxWrites == 3

---------------------------------------------------------------------------
(* Program constants *)

\* decimetres per metre: toFixed(1) keeps one decimal of a metre
DM == 10
\* private readonly MAX_GRID_SIZE_METERS = 50
MAX_GRID_SIZE_METERS == 50
\* Math.max(5, ...): the minimum derived dimension, in metres
MIN_DIMENSION_METERS == 5
\* canvas coordinates are multiples of 1/GridUnits of the canvas side; an
\* extent of e units is e/30 m, so no extent lies halfway between two tenths
\* of a metre and toFixed(1) never rounds a tie
GridUnits == 3 * 500

\* errorMessage values (the code's messages are Persian strings)
NoMessage == "null"
MsgNeedThreePoints == "draw: at least 3 points needed"
MsgInvalidDimensions == "numeric: enter valid land dimensions"
MsgServiceError == "error talking to the AI service"

\* errors thrown inside / by analyzeLand
NoError == "none"
ErrNetwork == "generateContent rejected"
ErrSyntax == "SyntaxError"
ErrTypeError == "TypeError"
ErrMissingFields == "Invalid data format from API: Missing essential fields."
ErrInvalidResponse == "Failed to get a valid response from the AI model."

---------------------------------------------------------------------------
(* JS values of a reply: all records of one shape *)

\* interface FloorPlan { level; rooms } ; rooms are kept by their type
Plan(l, rs) == [t |-> "plan", level |-> l, rooms |-> rs]
\* the value of an index that does not exist
UndefinedPlan == [t |-> "undefined", level |-> 0, rooms |-> <<>>]

GroundPlan == Plan(0, <<"living", "staircase">>)
ThirdPlan == Plan(3, <<"bedroom", "void">>)

\* buildingSummary: absent, null or an object
BS(t) == [t |-> t]
\* floorPlans: absent, null, an array of plans, or an object that is no array
FP(t, items) == [t |-> t, items |-> items]

\* a parsed reply (t = "object"), JSON null (t = "null")
Obj(bs, fp) == [t |-> "object", buildingSummary |-> bs, floorPlans |-> fp]
NullValue == [t |-> "null", buildingSummary |-> BS("absent"), floorPlans |-> FP("absent", <<>>)]

\* the floorPlans arrays a reply may carry (ordered by level, gaps allowed)
PlanLists == { <<>>, <<GroundPlan>>, <<GroundPlan, ThirdPlan>> }

FloorPlansValues ==
    { FP("absent", <<>>), FP("null", <<>>), FP("object", <<>>) }
        \cup { FP("array", ps) : ps \in PlanLists }

SummaryValues == { BS("absent"), BS("null"), BS("object") }

\* What generateContent may answer: a rejection (network / service failure),
\* or a text that JSON.parse rejects, or a text that parses to a value.
Reply(net, syntax, value) == [net |-> net, syntax |-> syntax, value |-> value]
NoReply == Reply("none", "ok", NullValue)

\* the replies the sketch specification answers with: one failure, one success
DrawReplies ==
    { Reply("error", "ok", NullValue),
      Reply("ok", "ok", Obj(BS("object"), FP("array", <<GroundPlan>>))) }

Replies ==
    { Reply("error", "ok", NullValue), Reply("ok", "bad", NullValue), Reply("ok", "ok", NullValue) }
        \cup { Reply("ok", "ok", Obj(bs, fp)) : bs \in SummaryValues, fp \in FloorPlansValues }


---------------------------------------------------------------------------
(* GeminiService.analyzeLand *)

\* JS truthiness of the two fields the validation reads
Truthy(v) == v.t \in {"object", "array"}
\* result.floorPlans.length === 0 : an object that is no array has no length
LengthIsZero(fp) == fp.t = "array" /\ Len(fp.items) = 0

\* the arguments of analyzeLand(width, depth, neighborWestFloors, neighborEastFloors)
Request(width, depth, west, east) ==
    [width |-> width, depth |-> depth, neighborWestFloors |-> west, neighborEastFloors |-> east]

\* what the try block does with a reply: the error it throws, or NoError
TryBlock(r) ==
    IF r.net = "error" THEN ErrNetwork
    ELSE IF r.syntax = "bad" THEN ErrSyntax
    ELSE IF r.value.t = "null" THEN ErrTypeError
    ELSE IF ~Truthy(r.value.buildingSummary) \/ ~Truthy(r.value.floorPlans)
            \/ LengthIsZero(r.value.floorPlans) THEN ErrMissingFields
    ELSE NoError

\* the catch block: every error of the try block is replaced by one error
CatchBlock(cause) == ErrInvalidResponse

\* the outcome of analyzeLand on reply r: a returned value or a thrown error
analyzeLand(r) ==
    LET cause == TryBlock(r)
    IN  IF cause = NoError
        THEN [ok |-> TRUE, value |-> r.value, cause |-> NoError, error |-> NoError]
        ELSE [ok |-> FALSE, value |-> NullValue, cause |-> cause, error |-> CatchBlock(cause)]

---------------------------------------------------------------------------
(* AppComponent: derived state and helpers *)

\* mutant: two points are enough
isDrawingValid_TwoPoints == Len(polygonPoints) >= 2

\* isDrawingValid = computed(() => polygonPoints().length >= 3)
isDrawingValid == Len(polygonPoints) >= 3

NullPlan == [t |-> "null", level |-> 0, rooms |-> <<>>]

\* floorPlans[i] for a JS index i (0-based); undefined when there is none
Index(fp, i) ==
    IF fp.t = "array" /\ i >= 0 /\ i < Len(fp.items) THEN fp.items[i + 1] ELSE UndefinedPlan

\* currentFloorPlan = computed(...)
FloorPlanOf(result, sel) ==
    IF result.t = "null" \/ ~Truthy(result.floorPlans) THEN NullPlan
    ELSE IF Index(result.floorPlans, sel).t # "undefined" THEN Index(result.floorPlans, sel)
    ELSE Index(result.floorPlans, 0)

currentFloorPlan == FloorPlanOf(analysisResult, selectedFloor)

SetMin(S) == CHOOSE m \in S : \A n \in S : m <= n
SetMax(S) == CHOOSE m \in S : \A n \in S : m >= n
Max2(a, b) == IF a >= b THEN a ELSE b

\* mutant: toFixed(0), the nearest whole metre
ToFixed0(extent) ==
    DM * ((2 * extent * MAX_GRID_SIZE_METERS + GridUnits) \div (2 * GridUnits))

\* parseFloat((extent * MAX_GRID_SIZE_METERS).toFixed(1)), in decimetres:
\* the nearest tenth of a metre, the larger one on a tie
ToFixed1(extent) ==
    (2 * extent * MAX_GRID_SIZE_METERS * DM + GridUnits) \div (2 * GridUnits)

\* mutant: the minimum is not applied
ClampNone(d) == d

\* Math.max(5, ...)
ClampMin(d) == Max2(MIN_DIMENSION_METERS * DM, d)

\* lines 153-168: the bounding box of the polygon, in decimetres
BoundingBoxMeters(points) ==
    LET xs == { points[i].x : i \in 1..Len(points) }
        ys == { points[i].y : i \in 1..Len(points) }
    IN  [width |-> ClampMin(ToFixed1(SetMax(xs) - SetMin(xs))),
         depth |-> ClampMin(ToFixed1(SetMax(ys) - SetMin(ys)))]


---------------------------------------------------------------------------
(* Inputs the environment supplies *)

Pt(x, y) == [x |-> x, y |-> y]
\* where the canvas is clicked
ClickPoints == { Pt(300, 300), Pt(940, 360) }
\* the one position the application-flow specification clicks
FlowClickPoints == { Pt(300, 300) }
\* what is typed into the width and depth fields (decimetres)
WidthInputs == { 0, 10 * DM }
DepthInputs == { -2 * DM, 20 * DM }
InputTypes == { "numeric", "draw" }
FloorChoices == (0 - 1) .. MaxSelectedFloor

\* an operation that consumed no reply / one that consumed reply r and saw
\* analyzeLand throw error
OpOn(name, outcome, r, error) == [name |-> name, outcome |-> outcome, reply |-> r, thrown |-> error]
Op(name, outcome) == OpOn(name, outcome, NoReply, NoError)
NoProbe == [points |-> <<>>, num |-> 0, den |-> 0, base |-> [width |-> 0, depth |-> 0],
            scaled |-> [width |-> 0, depth |-> 0]]

---------------------------------------------------------------------------
(* The inputs of the 3D view (unnamed/part_000, ThreeDViewComponent).       *)
(* Heights are kept in millimetres.                                         *)

\* FLOOR_HEIGHT = 3.2
FLOOR_HEIGHT == 3200
\* slabThickness = 0.1
SLAB_THICKNESS == 100
\* roomHeight: FLOOR_HEIGHT - 0.15 in building view, 2.8 in single-floor view
ROOM_HEIGHT_CUT == 150
SINGLE_ROOM_HEIGHT == 2800

\* further floor plans: an upper floor with a void, a second plan of level 0
FirstPlan == Plan(1, <<"kitchen", "void", "bedroom">>)
YardPlan == Plan(0, <<"void", "balcony">>)

\* buildingSummary with its totalFloors
Summary(n) == [t |-> "object", totalFloors |-> n]
\* an AnalysisResult as the view reads it
ViewResult(n, plans) ==
    [t |-> "object", buildingSummary |-> Summary(n), floorPlans |-> FP("array", plans)]
\* result = null
NoResult == [t |-> "null", buildingSummary |-> Summary(0), floorPlans |-> FP("absent", <<>>)]
\* result = undefined, the default of input<AnalysisResult | null>() (line 27)
UndefinedResult ==
    [t |-> "undefined", buildingSummary |-> Summary(0), floorPlans |-> FP("absent", <<>>)]

\* the floorPlans of the results shown: one plan; a gap in the levels; the
\* ground plan not first; no plan of level 0; no plan above level 0; three plans
ViewPlanLists ==
    { <<GroundPlan>>, <<GroundPlan, ThirdPlan>>, <<FirstPlan, GroundPlan>>,
      <<FirstPlan, ThirdPlan>>, <<GroundPlan, YardPlan>>, <<GroundPlan, FirstPlan, ThirdPlan>> }

\* the values each input is given (the width stays the one first bound, the
\* depth changes)
ViewInputValues ==
    [ plan |-> { UndefinedPlan, ThirdPlan },
      result |-> { UndefinedResult, NoResult }
                 \cup { ViewResult(n, ps) : n \in 0..MaxFloors, ps \in ViewPlanLists },
      viewType |-> { "single", "building" },
      landWidth |-> { 10 * DM },
      landDepth |-> { 20 * DM, 5 * DM },
      neighborWestFloors |-> { 0, 2 },
      neighborEastFloors |-> { 0, 2 },
      customPolygon |-> { <<>>, <<Pt(300, 300), Pt(940, 360), Pt(300, 360)>> } ]

\* the inputs whose values are objects: a new object of the same content is a change
ObjectInputs == { "plan", "result", "customPolygon" }
\* the inputs the effect reads before it tests this.scene (lines 74-79)
RegisteredInputs == { "plan", "result", "viewType", "landWidth", "landDepth", "customPolygon" }
NeighborInputNames == { "neighborWestFloors", "neighborEastFloors" }

\* the inputs before the parent binds anything but the required ones
\* (defaults of lines 26-35; customPolygon undefined is kept as no point)
InitialViewInputs ==
    [ plan |-> UndefinedPlan, result |-> UndefinedResult, viewType |-> "single",
      landWidth |-> 10 * DM, landDepth |-> 20 * DM,
      neighborWestFloors |-> 0, neighborEastFloors |-> 0, customPolygon |-> <<>> ]

\* no interval is active; the field loadingInterval is undefined
NoTimers == [id \in {} |-> 0]
NoInterval == 0
\* the values the neighbour-floor fields are given
NeighborInputs == 1..3

\* the state after construction (field initialisers, lines 19-48)
Init ==
    /\ step = "input"
    /\ inputType = "numeric"
    /\ viewMode = "building-3d"
    /\ landWidth = 10 * DM
    /\ landDepth = 20 * DM
    /\ neighborEastFloors = 2
    /\ neighborWestFloors = 2
    /\ polygonPoints = <<>>
    /\ analysisResult = NullValue
    /\ errorMessage = NoMessage
    /\ selectedFloor = 0
    /\ pending = <<>>
    /\ lastOp = Op("init", "")
    /\ probe = NoProbe
    /\ timers = NoTimers
    /\ loadingInterval = NoInterval
    /\ currentLoadingMessage = 0
    /\ stale = 0
    /\ latestRequest = "none"
    /\ viewInputs = InitialViewInputs
    /\ sceneReady = FALSE
    /\ roomGroup = <<>>
    /\ rebuilds = 0
    /\ resources = {}
    /\ tracksNeighbors = FALSE
    /\ destroyed = FALSE
    /\ effectDirty = TRUE
    /\ sceneInputs = InitialViewInputs
    /\ writes = 0

---------------------------------------------------------------------------
(* User edits of the input signals (template bindings) *)

SetInputType(t) ==
    /\ UNCHANGED viewVars
    /\ inputType' = t
    /\ lastOp' = Op("edit", "")
    /\ UNCHANGED <<step, viewMode, landWidth, landDepth, neighborEastFloors,
                   neighborWestFloors, polygonPoints, analysisResult, errorMessage,
                   selectedFloor, pending, probe>>
    /\ UNCHANGED <<timerVars, stale, latestRequest>>

SetLandWidth(w) ==
    /\ UNCHANGED viewVars
    /\ landWidth' = w
    /\ lastOp' = Op("edit", "")
    /\ UNCHANGED <<step, inputType, viewMode, landDepth, neighborEastFloors,
                   neighborWestFloors, polygonPoints, analysisResult, errorMessage,
                   selectedFloor, pending, probe>>
    /\ UNCHANGED <<timerVars, stale, latestRequest>>

SetLandDepth(d) ==
    /\ UNCHANGED viewVars
    /\ landDepth' = d
    /\ lastOp' = Op("edit", "")
    /\ UNCHANGED <<step, inputType, viewMode, landWidth, neighborEastFloors,
                   neighborWestFloors, polygonPoints, analysisResult, errorMessage,
                   selectedFloor, pending, probe>>
    /\ UNCHANGED <<timerVars, stale, latestRequest>>

SetNeighborEastFloors(n) ==
    /\ UNCHANGED viewVars
    /\ neighborEastFloors' = n
    /\ lastOp' = Op("edit", "")
    /\ UNCHANGED <<step, inputType, viewMode, landWidth, landDepth,
                   neighborWestFloors, polygonPoints, analysisResult, errorMessage,
                   selectedFloor, pending, probe>>
    /\ UNCHANGED <<timerVars, stale, latestRequest>>

SetNeighborWestFloors(n) ==
    /\ UNCHANGED viewVars
    /\ neighborWestFloors' = n
    /\ lastOp' = Op("edit", "")
    /\ UNCHANGED <<step, inputType, viewMode, landWidth, landDepth,
                   neighborEastFloors, polygonPoints, analysisResult, errorMessage,
                   selectedFloor, pending, probe>>
    /\ UNCHANGED <<timerVars, stale, latestRequest>>

SelectFloor(i) ==
    /\ UNCHANGED viewVars
    /\ selectedFloor' = i
    /\ lastOp' = Op("edit", "")
    /\ UNCHANGED <<step, inputType, viewMode, landWidth, landDepth, neighborEastFloors,
                   neighborWestFloors, polygonPoints, analysisResult, errorMessage,
                   pending, probe>>
    /\ UNCHANGED <<timerVars, stale, latestRequest>>

---------------------------------------------------------------------------
(* Drawing methods *)

\* mutant: the point is put first, [{x, y}, ...points]
onCanvasClickFirst(p, canvas) ==
    /\ UNCHANGED viewVars
    /\ Len(polygonPoints) < MaxPoints
    /\ IF step # "input" \/ inputType # "draw"
       THEN /\ lastOp' = Op("onCanvasClick", "ignored")
            /\ UNCHANGED polygonPoints
       ELSE IF ~canvas
       THEN /\ lastOp' = Op("onCanvasClick", "no canvas")
            /\ UNCHANGED polygonPoints
       ELSE /\ polygonPoints' = <<p>> \o polygonPoints
            /\ lastOp' = Op("onCanvasClick", "added")
    /\ UNCHANGED <<step, inputType, viewMode, landWidth, landDepth, neighborEastFloors,
                   neighborWestFloors, analysisResult, errorMessage, selectedFloor,
                   pending, probe>>
    /\ UNCHANGED <<timerVars, stale, latestRequest>>

\* onCanvasClick(event), lines 64-76; p is the normalised click position,
\* canvas tells whether this.drawCanvas() resolves to an element (line 67)
onCanvasClick(p, canvas) ==
    /\ UNCHANGED viewVars
    /\ Len(polygonPoints) < MaxPoints
    /\ IF step # "input" \/ inputType # "draw"
       THEN /\ lastOp' = Op("onCanvasClick", "ignored")
            /\ UNCHANGED polygonPoints
       ELSE IF ~canvas
       THEN /\ lastOp' = Op("onCanvasClick", "no canvas")
            /\ UNCHANGED polygonPoints
       ELSE /\ polygonPoints' = Append(polygonPoints, p)
            /\ lastOp' = Op("onCanvasClick", "added")
    /\ UNCHANGED <<step, inputType, viewMode, landWidth, landDepth, neighborEastFloors,
                   neighborWestFloors, analysisResult, errorMessage, selectedFloor,
                   pending, probe>>
    /\ UNCHANGED <<timerVars, stale, latestRequest>>

\* mutant: the first point is dropped, points.slice(1)
SliceDropFirst(points) == SubSeq(points, 2, Len(points))

\* points.slice(0, -1)
SliceDropLast(points) == SubSeq(points, 1, Len(points) - 1)

\* undoPoint(), lines 78-81
undoPoint ==
    /\ UNCHANGED viewVars
    /\ polygonPoints' = SliceDropLast(polygonPoints)
    /\ lastOp' = Op("undoPoint", "")
    /\ UNCHANGED <<step, inputType, viewMode, landWidth, landDepth, neighborEastFloors,
                   neighborWestFloors, analysisResult, errorMessage, selectedFloor,
                   pending, probe>>
    /\ UNCHANGED <<timerVars, stale, latestRequest>>

\* resetDrawing(), lines 83-86
resetDrawing ==
    /\ UNCHANGED viewVars
    /\ polygonPoints' = <<>>
    /\ lastOp' = Op("resetDrawing", "")
    /\ UNCHANGED <<step, inputType, viewMode, landWidth, landDepth, neighborEastFloors,
                   neighborWestFloors, analysisResult, errorMessage, selectedFloor,
                   pending, probe>>
    /\ UNCHANGED <<timerVars, stale, latestRequest>>

---------------------------------------------------------------------------
(* Analysis *)

\* mutant: the numeric check reads the width alone
ValidationError_WidthOnly ==
    IF inputType = "draw"
    THEN (IF Len(polygonPoints) < 3 THEN MsgNeedThreePoints ELSE NoMessage)
    ELSE (IF landWidth <= 0 THEN MsgInvalidDimensions ELSE NoMessage)

\* the validation of analyzePlot (lines 147-151 and 170-173): the message it
\* sets before returning, or NoMessage when the input is accepted
ValidationError ==
    IF inputType = "draw"
    THEN (IF ~isDrawingValid THEN MsgNeedThreePoints ELSE NoMessage)
    ELSE (IF landWidth <= 0 \/ landDepth <= 0 THEN MsgInvalidDimensions ELSE NoMessage)

\* finalWidth / finalDepth of analyzePlot (lines 144-168)
FinalDimensions ==
    IF inputType = "draw"
    THEN BoundingBoxMeters(polygonPoints)
    ELSE [width |-> landWidth, depth |-> landDepth]

\* the number of loadingMessages (line 46)
LoadingMessageCount == 5

\* the id setInterval returns: the least one no active interval has (the id of
\* a cleared interval may be given again: the one field that held it is
\* assigned the new id in the same call)
NewIntervalId ==
    CHOOSE id \in 1..MaxTimers :
        /\ id \notin DOMAIN timers
        /\ \A other \in 1..(id - 1) : other \in DOMAIN timers

\* setInterval(callback, 2500): a new interval whose callback closes over
\* messageIndex = 0
SetInterval(ts, id) == [i \in DOMAIN ts \cup {id} |-> IF i = id THEN 0 ELSE ts[i]]

\* clearInterval(id): no effect when id is no active interval
ClearInterval(ts, id) == [i \in DOMAIN ts \ {id} |-> ts[i]]

\* startLoadingMessages(), lines 212-219
startLoadingMessages ==
    /\ currentLoadingMessage' = 0
    /\ timers' = SetInterval(timers, NewIntervalId)
    /\ loadingInterval' = NewIntervalId

\* stopLoadingMessages(), lines 221-223
stopLoadingMessages ==
    /\ timers' = ClearInterval(timers, loadingInterval)
    /\ UNCHANGED <<loadingInterval, currentLoadingMessage>>

\* the callback of an active interval, lines 215-218
tick(id) ==
    /\ UNCHANGED viewVars
    /\ id \in DOMAIN timers
    /\ timers' = [timers EXCEPT ![id] = (timers[id] + 1) % LoadingMessageCount]
    /\ currentLoadingMessage' = timers'[id]
    /\ lastOp' = Op("tick", "")
    /\ UNCHANGED <<step, inputType, viewMode, landWidth, landDepth, neighborEastFloors,
                   neighborWestFloors, polygonPoints, analysisResult, errorMessage,
                   selectedFloor, pending, probe, loadingInterval, stale,
                   latestRequest>>

\* analyzePlot() up to its await (lines 143-191): validation, then the state
\* is set to loading and analyzeLand is called
analyzePlot ==
    /\ UNCHANGED viewVars
    /\ IF ValidationError # NoMessage
       THEN /\ errorMessage' = ValidationError
            /\ lastOp' = Op("analyzePlot", "rejected")
            /\ UNCHANGED <<step, inputType, viewMode, landWidth, landDepth,
                           neighborEastFloors, neighborWestFloors, polygonPoints,
                           analysisResult, selectedFloor, pending, probe>>
            /\ UNCHANGED <<timerVars, stale, latestRequest>>
       ELSE /\ Len(pending) < MaxInFlight
            /\ Cardinality(DOMAIN timers) < MaxTimers
            /\ landWidth' = FinalDimensions.width
            /\ landDepth' = FinalDimensions.depth
            /\ step' = "loading"
            /\ analysisResult' = NullValue
            /\ errorMessage' = NoMessage
            /\ pending' = Append(pending, Request(FinalDimensions.width, FinalDimensions.depth,
                                                  neighborEastFloors, neighborWestFloors))
            /\ startLoadingMessages
            /\ latestRequest' = "in flight"
            /\ lastOp' = Op("analyzePlot", "issued")
            /\ UNCHANGED <<inputType, viewMode, neighborEastFloors, neighborWestFloors,
                           polygonPoints, selectedFloor, probe, stale>>

\* mutant: the answered request stays in flight, as if it were sent again
RemoveNone(s, i) == s

\* the requests in flight but the i-th
RemoveAt(s, i) == SubSeq(s, 1, i - 1) \o SubSeq(s, i + 1, Len(s))

\* what becomes of the request issued last when a request is answered: the
\* request issued last, while in flight, is the last of pending
AfterReply(latest, isLast, ok) ==
    IF latest = "in flight" /\ isLast
    THEN (IF ok THEN "stored" ELSE "over")
    ELSE IF latest = "stored" /\ ok THEN "over"
    ELSE latest

\* the continuation of analyzePlot after its await (lines 192-202), run when
\* the call of pending request i is answered by r
replyArrives(i, r) ==
    /\ UNCHANGED viewVars
    /\ i \in 1..Len(pending)
    /\ pending' = RemoveAt(pending, i)
    /\ IF analyzeLand(r).ok
       THEN /\ analysisResult' = analyzeLand(r).value
            /\ selectedFloor' = 0
            /\ step' = "result"
            /\ viewMode' = "building-3d"
            /\ lastOp' = OpOn("reply", "success", r, NoError)
            /\ UNCHANGED errorMessage
       ELSE /\ errorMessage' = MsgServiceError
            /\ step' = "input"
            /\ lastOp' = OpOn("reply", "failure", r, analyzeLand(r).error)
            /\ UNCHANGED <<analysisResult, selectedFloor, viewMode>>
    /\ stopLoadingMessages
    /\ stale' = IF i <= stale THEN stale - 1 ELSE stale
    /\ latestRequest' = AfterReply(latestRequest, i = Len(pending), analyzeLand(r).ok)
    /\ UNCHANGED <<inputType, landWidth, landDepth, neighborEastFloors,
                   neighborWestFloors, polygonPoints, probe>>

\* startOver(), lines 205-210
startOver ==
    /\ UNCHANGED viewVars
    /\ step' = "input"
    /\ analysisResult' = NullValue
    /\ errorMessage' = NoMessage
    /\ lastOp' = Op("startOver", "")
    /\ stale' = Len(pending)
    /\ latestRequest' = IF latestRequest = "stored" THEN "over" ELSE latestRequest
    /\ UNCHANGED <<inputType, viewMode, landWidth, landDepth, neighborEastFloors,
                   neighborWestFloors, polygonPoints, selectedFloor, pending, probe>>
    /\ UNCHANGED timerVars

---------------------------------------------------------------------------
(* The bounding-box conversion of analyzePlot, measured on its own *)

\* the polygons the conversion is measured on: three points of ProbePoints
ProbePoints == ClickPoints \cup { Pt(620, 900), Pt(100, 420) }
ProbePolygons == [1..3 -> ProbePoints]
\* scale factors num/den; every coordinate is even, so den = 2 scales exactly
ScaleDens == { 1, 2 }

\* every point of the polygon multiplied by num/den
ScalePoints(points, num, den) ==
    [i \in 1..Len(points) |-> Pt((points[i].x * num) \div den, (points[i].y * num) \div den)]

\* lines 152-168 applied to a polygon and to the same polygon scaled by num/den
measureConversion(points, num, den) ==
    /\ UNCHANGED viewVars
    /\ probe' = [points |-> points, num |-> num, den |-> den,
                 base |-> BoundingBoxMeters(points),
                 scaled |-> BoundingBoxMeters(ScalePoints(points, num, den))]
    /\ lastOp' = Op("measureConversion", "")
    /\ UNCHANGED <<step, inputType, viewMode, landWidth, landDepth, neighborEastFloors,
                   neighborWestFloors, polygonPoints, analysisResult, errorMessage,
                   selectedFloor, pending>>
    /\ UNCHANGED <<timerVars, stale, latestRequest>>

---------------------------------------------------------------------------
(* The 3D view: what createScene puts into roomGroup.                       *)
(* An object is kept by what the claims read of it: its kind, the elevation *)
(* it was rendered at, its y position, the room it shows (type and index in *)
(* the plan), its material, the pieces of a slab, and the rebuild that       *)
(* created it; land is the plot size its geometry was scaled to.            *)

Object3D(kind, inputs, gen) ==
    [ kind |-> kind, gen |-> gen,
      land |-> [w |-> inputs.landWidth, d |-> inputs.landDepth],
      elevation |-> 0, y |-> 0, room |-> "", index |-> 0, material |-> "",
      rooms |-> <<>>, pieces |-> <<>> ]

\* room.type === 'void'
IsVoid(room) == room = "void"
NotVoid(room) == ~IsVoid(room)

\* mutant: a void room is left out in either view
SkipsAnyVoid(room, isBuildingView) == IsVoid(room)

\* line 367: if (room.type === 'void' && isBuildingView) return
SkipsRoom(room, isBuildingView) == IsVoid(room) /\ isBuildingView

\* line 364
RoomHeight(isBuildingView) ==
    IF isBuildingView THEN FLOOR_HEIGHT - ROOM_HEIGHT_CUT ELSE SINGLE_ROOM_HEIGHT

\* the mesh of room k of the plan, and its neon edges (lines 369-423)
RoomMesh(plan, k, elevation, isBuildingView, inputs, gen) ==
    [ Object3D("box", inputs, gen) EXCEPT
        !.elevation = elevation,
        !.y = elevation + RoomHeight(isBuildingView) \div 2,
        !.room = plan.rooms[k], !.index = k, !.rooms = plan.rooms,
        !.material = IF IsVoid(plan.rooms[k]) THEN "wireframe" ELSE "glass" ]
RoomEdges(plan, k, elevation, isBuildingView, inputs, gen) ==
    [ RoomMesh(plan, k, elevation, isBuildingView, inputs, gen) EXCEPT
        !.kind = "edges", !.material = "line" ]

\* renderFloor(plan, elevation, landW, landD, isBuildingView), lines 363-425:
\* what the forEach adds from room k on
RECURSIVE RenderRooms(_, _, _, _, _, _)
RenderRooms(plan, k, elevation, isBuildingView, inputs, gen) ==
    IF k > Len(plan.rooms) THEN <<>>
    ELSE (IF SkipsRoom(plan.rooms[k], isBuildingView) THEN <<>>
          ELSE <<RoomMesh(plan, k, elevation, isBuildingView, inputs, gen)>>
               \o (IF NotVoid(plan.rooms[k])
                   THEN <<RoomEdges(plan, k, elevation, isBuildingView, inputs, gen)>>
                   ELSE <<>>))
         \o RenderRooms(plan, k + 1, elevation, isBuildingView, inputs, gen)

renderFloor(plan, elevation, isBuildingView, inputs, gen) ==
    RenderRooms(plan, 1, elevation, isBuildingView, inputs, gen)

\* renderSlab(elevation, landW, landD, plan), lines 342-361: one group holding
\* a piece for each room that is no void
renderSlab(elevation, plan, inputs, gen) ==
    << [ Object3D("slab", inputs, gen) EXCEPT
           !.elevation = elevation,
           !.y = elevation - SLAB_THICKNESS \div 2,
           !.rooms = plan.rooms,
           !.pieces = SelectSeq(plan.rooms, NotVoid),
           !.material = "slab" ] >>

\* floorPlans.find(p => p.level > 0) and floorPlans.find(p => p.level === 0)
FindAbove(floorPlans) ==
    LET found == { k \in 1..Len(floorPlans) : floorPlans[k].level > 0 }
    IN  IF found = {} THEN UndefinedPlan ELSE floorPlans[SetMin(found)]
FindGround(floorPlans) ==
    LET found == { k \in 1..Len(floorPlans) : floorPlans[k].level = 0 }
    IN  IF found = {} THEN UndefinedPlan ELSE floorPlans[SetMin(found)]
\* a || b on plans
OrElse(a, b) == IF a.t # "undefined" THEN a ELSE b

\* mutant: the typical plan is always the first plan
TypicalIsFirst(floorPlans) == floorPlans[1]

\* line 291
TypicalPlan(floorPlans) ==
    IF Len(floorPlans) > 1 THEN OrElse(FindAbove(floorPlans), floorPlans[1]) ELSE floorPlans[1]

\* line 292
GroundPlanOf(floorPlans) == OrElse(FindGround(floorPlans), floorPlans[1])

\* line 296
PlanToRender(i, floorPlans) ==
    IF i = 0 THEN GroundPlanOf(floorPlans) ELSE TypicalPlan(floorPlans)

\* mutant: a slab under the ground floor too
SlabUnderEvery(i) == i >= 0

\* line 299: if (i > 0) renderSlab(...)
SlabUnder(i) == i > 0

\* the loop of lines 294-300, from level i on
RECURSIVE RenderLevels(_, _, _, _, _)
RenderLevels(i, totalFloors, floorPlans, inputs, gen) ==
    IF ~(i < totalFloors) THEN <<>>
    ELSE renderFloor(PlanToRender(i, floorPlans), i * FLOOR_HEIGHT, TRUE, inputs, gen)
         \o (IF SlabUnder(i)
             THEN renderSlab(i * FLOOR_HEIGHT, PlanToRender(i, floorPlans), inputs, gen)
             ELSE <<>>)
         \o RenderLevels(i + 1, totalFloors, floorPlans, inputs, gen)

\* createNeighbor(h, xPos), lines 319-331: a box and its edges
createNeighbor(side, h, inputs, gen) ==
    << [ Object3D("neighbor", inputs, gen) EXCEPT
           !.room = side, !.y = (h * FLOOR_HEIGHT) \div 2, !.material = "ghost" ],
       [ Object3D("neighborEdges", inputs, gen) EXCEPT
           !.room = side, !.y = (h * FLOOR_HEIGHT) \div 2, !.material = "line" ] >>

\* renderNeighbors(landW, landD), lines 307-340
renderNeighbors(inputs, gen) ==
    (IF inputs.neighborWestFloors > 0
     THEN createNeighbor("west", inputs.neighborWestFloors, inputs, gen) ELSE <<>>)
    \o (IF inputs.neighborEastFloors > 0
        THEN createNeighbor("east", inputs.neighborEastFloors, inputs, gen) ELSE <<>>)

\* createBuildingScene(landW, landD), lines 285-305
createBuildingScene(inputs, gen) ==
    IF ~Truthy(inputs.result) THEN <<>>
    ELSE RenderLevels(0, inputs.result.buildingSummary.totalFloors,
                      inputs.result.floorPlans.items, inputs, gen)
         \o renderSlab(inputs.result.buildingSummary.totalFloors * FLOOR_HEIGHT,
                       TypicalPlan(inputs.result.floorPlans.items), inputs, gen)
         \o renderNeighbors(inputs, gen)

\* the grid, the outline of the plot and the plot (lines 210-272); the plot is
\* a shape when a polygon of at least 3 points is given, a plane otherwise
BaseObjects(inputs, gen) ==
    LET geometry == IF Len(inputs.customPolygon) >= 3 THEN "shape" ELSE "plane"
    IN  << [ Object3D("grid", inputs, gen) EXCEPT !.y = 0 - 50, !.material = "line" ],
           [ Object3D("outline", inputs, gen) EXCEPT !.y = 20, !.material = "line",
                                                     !.room = geometry ],
           [ Object3D("base", inputs, gen) EXCEPT !.material = "base", !.room = geometry ] >>

\* mutant: the group is not cleared
KeepChildren(group) == group

\* this.roomGroup.clear(), line 204
ClearChildren(group) == <<>>

\* createScene(), lines 203-283: the children of roomGroup afterwards
createScene(group, inputs, gen) ==
    ClearChildren(group)
    \o BaseObjects(inputs, gen)
    \o (IF inputs.viewType = "building"
        THEN createBuildingScene(inputs, gen)
        ELSE IF inputs.plan.t # "undefined"
             THEN renderFloor(inputs.plan, 0, FALSE, inputs, gen)
             ELSE <<>>)

---------------------------------------------------------------------------
(* The 3D view: its lifecycle *)

\* rendering resources: the renderer, the controls, the resize observer, the
\* requested animation frame, and the geometries and materials of the objects
\* a run of createScene created
Resource(kind) == [kind |-> kind, gen |-> 0]
\* the geometries and materials of the objects a run of createScene puts in
\* roomGroup
SceneObjects(gen) == [kind |-> "geometries and materials", gen |-> gen]
\* mat and edgeMat of renderNeighbors (lines 311-317), created before the
\* neighbour floors are tested
NeighborMaterials(gen) == [kind |-> "neighbor materials", gen |-> gen]
\* what a run of createScene creates: renderNeighbors runs in building view of
\* a result
SceneResources(inputs, gen) ==
    { SceneObjects(gen) }
    \cup (IF inputs.viewType = "building" /\ Truthy(inputs.result)
          THEN { NeighborMaterials(gen) } ELSE {})

\* the callback of afterNextRender (lines 66-70): initThreeJs, createScene,
\* animate.  It runs after the render in which the component was created, so
\* after the first run of the effect.
afterNextRender ==
    /\ ~sceneReady
    /\ ~destroyed
    /\ ~effectDirty
    /\ sceneReady' = TRUE
    /\ rebuilds' = rebuilds + 1
    /\ roomGroup' = createScene(roomGroup, viewInputs, rebuilds + 1)
    /\ sceneInputs' = viewInputs
    /\ resources' = resources \cup { Resource("renderer"), Resource("controls"),
                                     Resource("resizeObserver"), Resource("animationFrame") }
                         \cup SceneResources(viewInputs, rebuilds + 1)
    /\ lastOp' = Op("createScene", "afterNextRender")
    /\ UNCHANGED <<viewInputs, tracksNeighbors, destroyed, effectDirty, writes>>
    /\ UNCHANGED appVars

\* the effect is notified when an input it read on its last run changes
EffectRuns(name) == name \in RegisteredInputs \/ tracksNeighbors

\* an input signal changes when it is given a value that is not the one it
\* holds (Object.is): another primitive, or an object, which the parent
\* creates anew; undefined is the value it was, and so is null, and null is
\* not undefined
IsNewObject(name, v) ==
    /\ name \in ObjectInputs
    /\ IF name = "customPolygon" THEN v # <<>> ELSE v.t \in {"plan", "object"}
SignalChanges(name, v) == v # viewInputs[name] \/ IsNewObject(name, v)

\* the parent's change detection gives input `name` the value v (the input
\* signals of lines 26-35); the effect that read the input is scheduled
inputChanges(name, v) ==
    /\ ~destroyed
    /\ IF SignalChanges(name, v)
       THEN /\ writes < MaxWrites
            /\ writes' = writes + 1
            /\ viewInputs' = [viewInputs EXCEPT ![name] = v]
            /\ effectDirty' = (effectDirty \/ EffectRuns(name))
            /\ lastOp' = Op("inputChanges", "written")
       ELSE /\ lastOp' = Op("inputChanges", "unchanged")
            /\ UNCHANGED <<viewInputs, effectDirty, writes>>
    /\ UNCHANGED <<sceneReady, roomGroup, rebuilds, resources, tracksNeighbors, destroyed,
                   sceneInputs>>
    /\ UNCHANGED appVars

\* the scheduled effect of lines 72-85 runs, once for all the inputs written
\* since its last run
runEffect ==
    /\ ~destroyed
    /\ effectDirty
    /\ effectDirty' = FALSE
    /\ IF sceneReady
       THEN /\ rebuilds < MaxRebuilds
            /\ rebuilds' = rebuilds + 1
            /\ roomGroup' = createScene(roomGroup, viewInputs, rebuilds + 1)
            /\ sceneInputs' = viewInputs
            /\ resources' = resources \cup SceneResources(viewInputs, rebuilds + 1)
            /\ tracksNeighbors' = (viewInputs.viewType = "building" /\ Truthy(viewInputs.result))
            /\ lastOp' = Op("createScene", "effect")
       ELSE /\ tracksNeighbors' = FALSE
            /\ lastOp' = Op("runEffect", "no scene")
            /\ UNCHANGED <<roomGroup, rebuilds, resources, sceneInputs>>
    /\ UNCHANGED <<viewInputs, sceneReady, destroyed, writes>>
    /\ UNCHANGED appVars

\* the rebuilds whose objects are in the scene
RebuildsInScene == { roomGroup[k].gen : k \in 1..Len(roomGroup) }
\* what cleanupScene (lines 102-119) disposes: the geometry and the material
\* of every Mesh and LineSegments scene.traverse reaches; the materials of
\* renderNeighbors hang on the neighbour boxes only
DisposedByCleanup ==
    { SceneObjects(g) : g \in RebuildsInScene }
    \cup { NeighborMaterials(roomGroup[k].gen) :
             k \in { j \in 1..Len(roomGroup) : roomGroup[j].kind = "neighbor" } }

\* ngOnDestroy(), lines 88-100, with cleanupScene(), lines 102-119
ngOnDestroy ==
    /\ ~destroyed
    /\ destroyed' = TRUE
    /\ resources' = resources \ ({ Resource("animationFrame"), Resource("renderer"),
                                   Resource("resizeObserver") }
                                 \cup DisposedByCleanup)
    /\ lastOp' = Op("ngOnDestroy", "")
    /\ UNCHANGED <<viewInputs, sceneReady, roomGroup, rebuilds, tracksNeighbors, effectDirty,
                   sceneInputs, writes>>
    /\ UNCHANGED appVars

\* The 3D view on its own
NextView ==
    \/ afterNextRender
    \/ \E name \in DOMAIN ViewInputValues : \E v \in ViewInputValues[name] : inputChanges(name, v)
    \/ runEffect
    \/ ngOnDestroy

SpecView == Init /\ [][NextView]_vars

\* The application flow: both input modes, one click position
Next ==
    \/ \E t \in InputTypes : SetInputType(t)
    \/ \E w \in WidthInputs : SetLandWidth(w)
    \/ \E d \in DepthInputs : SetLandDepth(d)
    \/ \E p \in FlowClickPoints, canvas \in BOOLEAN : onCanvasClick(p, canvas)
    \/ undoPoint
    \/ resetDrawing
    \/ analyzePlot
    \/ \E i \in 1..MaxInFlight, r \in Replies : replyArrives(i, r)
    \/ startOver

Spec == Init /\ [][Next]_vars

\* The floor selector over the results the flow stores (numeric mode, default input)
NextFloor ==
    \/ \E i \in FloorChoices : SelectFloor(i)
    \/ analyzePlot
    \/ \E i \in 1..MaxInFlight, r \in Replies : replyArrives(i, r)
    \/ startOver

SpecFloor == Init /\ [][NextFloor]_vars

\* The sketch surface: every click position, and the submission of the sketch
NextDraw ==
    \/ \E t \in InputTypes : SetInputType(t)
    \/ \E p \in ClickPoints, canvas \in BOOLEAN : onCanvasClick(p, canvas)
    \/ undoPoint
    \/ resetDrawing
    \/ analyzePlot
    \/ \E i \in 1..MaxInFlight, r \in DrawReplies : replyArrives(i, r)
    \/ startOver

SpecDraw == Init /\ [][NextDraw]_vars

\* The numeric form: the dimension fields, the submission and every reply
NextNumeric ==
    \/ \E w \in WidthInputs : SetLandWidth(w)
    \/ \E d \in DepthInputs : SetLandDepth(d)
    \/ analyzePlot
    \/ \E i \in 1..MaxInFlight, r \in Replies : replyArrives(i, r)
    \/ startOver

SpecNumeric == Init /\ [][NextNumeric]_vars

\* The loading-message timer across overlapping analyses (numeric mode,
\* default input)
NextTimer ==
    \/ analyzePlot
    \/ \E i \in 1..MaxInFlight, r \in DrawReplies : replyArrives(i, r)
    \/ \E id \in 1..MaxTimers : tick(id)
    \/ startOver

SpecTimer == Init /\ [][NextTimer]_vars

\* The neighbour-floor fields and the request built from them
NextNeighbors ==
    \/ \E n \in NeighborInputs : SetNeighborEastFloors(n)
    \/ \E n \in NeighborInputs : SetNeighborWestFloors(n)
    \/ analyzePlot
    \/ \E i \in 1..MaxInFlight, r \in DrawReplies : replyArrives(i, r)

SpecNeighbors == Init /\ [][NextNeighbors]_vars

\* The conversion alone, over polygons and scale factors
NextConv ==
    \E points \in ProbePolygons, num \in 1..MaxScaleNum, den \in ScaleDens :
        measureConversion(points, num, den)

SpecConv == Init /\ [][NextConv]_vars

---------------------------------------------------------------------------
(* Claims *)

IsNull(v) == v.t = "null"
\* the validity the specification asks of an AnalysisResult: a present
\* buildingSummary and a floorPlans array that is not empty
ValidResult(v) ==
    /\ v.t = "object"
    /\ v.buildingSummary.t = "object"
    /\ v.floorPlans.t = "array"
    /\ Len(v.floorPlans.items) >= 1
\* the reply is a text that parses to a valid result
WellFormedReply(r) == r.net = "ok" /\ r.syntax = "ok" /\ ValidResult(r.value)

AllowedEdges ==
    { <<"input", "loading">>, <<"loading", "result">>, <<"loading", "input">>,
      <<"result", "input">> }

\* C1: over any sequence of analyzePlot, startOver and replies, step changes
\* only along input->loading, loading->result, loading->input, result->input.
C1_StepEdges == [][step' # step => <<step, step'>> \in AllowedEdges]_vars

\* C2: right after a failed analysis call is handled, step = input,
\* errorMessage is non-null and analysisResult is null.
C2_FailureLeavesNoResult ==
    (lastOp.name = "reply" /\ lastOp.outcome = "failure")
        => (step = "input" /\ errorMessage # NoMessage /\ IsNull(analysisResult))

\* C3: in numeric mode, analyzePlot with landWidth <= 0 or landDepth <= 0 sets
\* a non-null errorMessage, issues no model request and leaves step,
\* analysisResult, landWidth and landDepth unchanged.
C3_NumericRejected ==
    [][(lastOp'.name = "analyzePlot" /\ inputType = "numeric"
            /\ (landWidth <= 0 \/ landDepth <= 0))
        => (/\ errorMessage' # NoMessage
            /\ pending' = pending
            /\ step' = step
            /\ analysisResult' = analysisResult
            /\ landWidth' = landWidth
            /\ landDepth' = landDepth)]_vars

C3_Witness ==
    /\ lastOp = Op("analyzePlot", "rejected")
    /\ inputType = "numeric"
    /\ landDepth <= 0
    /\ landWidth > 0
    /\ step = "input"
    /\ errorMessage = MsgInvalidDimensions

\* C4: in draw mode, analyzePlot with fewer than 3 polygon points sets a
\* non-null errorMessage, issues no model request and leaves step,
\* analysisResult, landWidth, landDepth and polygonPoints unchanged.
C4_DrawRejected ==
    [][(lastOp'.name = "analyzePlot" /\ inputType = "draw" /\ Len(polygonPoints) < 3)
        => (/\ errorMessage' # NoMessage
            /\ pending' = pending
            /\ step' = step
            /\ analysisResult' = analysisResult
            /\ landWidth' = landWidth
            /\ landDepth' = landDepth
            /\ polygonPoints' = polygonPoints)]_vars

C4_Witness ==
    /\ lastOp = Op("analyzePlot", "rejected")
    /\ inputType = "draw"
    /\ Len(polygonPoints) = 2
    /\ step = "input"
    /\ errorMessage = MsgNeedThreePoints

\* C5: analyzeLand returns a result exactly when the reply parses as JSON, has
\* a buildingSummary and has a non-empty floorPlans array; otherwise it fails.
C5_ResultOnlyIfValid ==
    lastOp.name = "reply" => (lastOp.outcome = "success" <=> WellFormedReply(lastOp.reply))

\* C6: a failure of the network call is reported by analyzeLand with an error
\* distinct from the one it reports for an unparsable reply.
C6_NetworkErrorDistinct ==
    (lastOp.name = "reply" /\ lastOp.reply.net = "error")
        => lastOp.thrown # analyzeLand(Reply("ok", "bad", NullValue)).error

\* C7: step = result implies analysisResult is non-null with a present
\* buildingSummary and a non-empty floorPlans list.
C7_ResultStepValid == step = "result" => ValidResult(analysisResult)

\* C8: for a non-null analysisResult, currentFloorPlan is floorPlans[selectedFloor]
\* when that index exists and floorPlans[0] otherwise, an element of floorPlans;
\* it is null only when analysisResult is null.
C8_CurrentFloorPlan ==
    /\ ~IsNull(analysisResult) =>
          /\ analysisResult.floorPlans.t = "array"
          /\ \E i \in 1..Len(analysisResult.floorPlans.items) :
                 currentFloorPlan = analysisResult.floorPlans.items[i]
          /\ currentFloorPlan =
                 (IF selectedFloor + 1 \in 1..Len(analysisResult.floorPlans.items)
                  THEN analysisResult.floorPlans.items[selectedFloor + 1]
                  ELSE analysisResult.floorPlans.items[1])
    /\ currentFloorPlan.t = "null" => IsNull(analysisResult)

\* C9: undoPoint on n >= 1 points yields the first n-1 points in order and leaves
\* an empty polygon empty; resetDrawing yields zero points; isDrawingValid is
\* true exactly when there are at least 3 points, so it is false after a reset.
C9_UndoReset ==
    [][/\ lastOp'.name = "undoPoint" =>
            /\ Len(polygonPoints') = (IF Len(polygonPoints) >= 1 THEN Len(polygonPoints) - 1 ELSE 0)
            /\ \A i \in 1..Len(polygonPoints') : polygonPoints'[i] = polygonPoints[i]
       /\ lastOp'.name = "resetDrawing" => (Len(polygonPoints') = 0 /\ ~isDrawingValid')
       /\ isDrawingValid' <=> Len(polygonPoints') >= 3]_vars

\* a 4-point polygon of distinct points has become its first 3 points
C9_Witness ==
    /\ lastOp.name = "undoPoint"
    /\ Len(polygonPoints) = 3
    /\ polygonPoints[1] # polygonPoints[2]
    /\ polygonPoints[2] # polygonPoints[3]
    /\ isDrawingValid

Measured == probe.den # 0
AboveMin(d) == d > MIN_DIMENSION_METERS * DM
Abs(n) == IF n >= 0 THEN n ELSE 0 - n

\* C10 as stated: scaling every point by k = num/den multiplies the derived
\* width and depth by k, except where the 5-metre minimum applies.
C10_ExactScaling ==
    Measured =>
        /\ (AboveMin(probe.base.width) /\ AboveMin(probe.scaled.width))
              => probe.den * probe.scaled.width = probe.num * probe.base.width
        /\ (AboveMin(probe.base.depth) /\ AboveMin(probe.scaled.depth))
              => probe.den * probe.scaled.depth = probe.num * probe.base.depth

\* the scaled dimension is k times the dimension up to the rounding of both to
\* 0.1 m, |scaled - k * base| <= 0.05 * (k + 1) m, and is not on the other
\* side of it than k is of 1
ScalesWithinRounding(base, scaled, num, den) ==
    /\ (AboveMin(base) /\ AboveMin(scaled))
          => 2 * Abs(den * scaled - num * base) <= num + den
    /\ num >= den => scaled >= base
    /\ num <= den => scaled <= base

\* C10 amended: scaling every point by k > 0 scales the derived width and depth
\* by k up to the rounding to one decimal of a metre (and never in the other
\* direction), except where the 5-metre minimum applies.
C10_ScalingUpToRounding ==
    Measured =>
        /\ ScalesWithinRounding(probe.base.width, probe.scaled.width, probe.num, probe.den)
        /\ ScalesWithinRounding(probe.base.depth, probe.scaled.depth, probe.num, probe.den)

\* a polygon scaled by a factor other than 1, both widths above the minimum
C10_Witness ==
    /\ Measured
    /\ probe.num # probe.den
    /\ AboveMin(probe.base.width)
    /\ AboveMin(probe.scaled.width)
    /\ probe.den * probe.scaled.width # probe.num * probe.base.width


\* the bounding-box extents of a polygon, in canvas units
ExtentX(points) ==
    SetMax({ points[i].x : i \in 1..Len(points) }) - SetMin({ points[i].x : i \in 1..Len(points) })
ExtentY(points) ==
    SetMax({ points[i].y : i \in 1..Len(points) }) - SetMin({ points[i].y : i \in 1..Len(points) })

\* d decimetres is exactly extent * 50 m, or the 5 m minimum when that is less
ExactMetres(d, extent) ==
    IF extent * MAX_GRID_SIZE_METERS * DM <= MIN_DIMENSION_METERS * DM * GridUnits
    THEN d = MIN_DIMENSION_METERS * DM
    ELSE d * GridUnits = extent * MAX_GRID_SIZE_METERS * DM

\* d decimetres is the tenth of a metre nearest to extent * 50 m, or the 5 m
\* minimum when that is less
RoundedMetres(d, extent) ==
    /\ d >= MIN_DIMENSION_METERS * DM
    /\ d > MIN_DIMENSION_METERS * DM
          => 2 * Abs(d * GridUnits - extent * MAX_GRID_SIZE_METERS * DM) <= GridUnits
    /\ d = MIN_DIMENSION_METERS * DM
          => 2 * extent * MAX_GRID_SIZE_METERS * DM < (2 * MIN_DIMENSION_METERS * DM + 1) * GridUnits

\* an analyzePlot step taken in draw mode on a polygon of at least 3 points
DrawSubmission ==
    lastOp'.name = "analyzePlot" /\ inputType = "draw" /\ Len(polygonPoints) >= 3

\* what C11 says of such a step but for the value of the dimensions: the
\* polygon is accepted, and the dimensions stored are the ones sent
AcceptedAndSent ==
    /\ lastOp'.outcome = "issued"
    /\ step' = "loading"
    /\ Len(pending') = Len(pending) + 1
    /\ pending'[Len(pending')].width = landWidth'
    /\ pending'[Len(pending')].depth = landDepth'

\* C11 as stated: any polygon of at least 3 points is accepted, and the width
\* and depth stored and sent are the bounding-box extent times 50 m, never
\* less than 5 m.
C11_ExactExtent ==
    [][DrawSubmission =>
        /\ AcceptedAndSent
        /\ ExactMetres(landWidth', ExtentX(polygonPoints))
        /\ ExactMetres(landDepth', ExtentY(polygonPoints))]_vars

\* C11 amended: any polygon of at least 3 points is accepted, and the width and
\* depth stored and sent are the bounding-box extent times 50 m rounded to one
\* decimal of a metre, never less than 5 m.
C11_RoundedExtent ==
    [][DrawSubmission =>
        /\ AcceptedAndSent
        /\ RoundedMetres(landWidth', ExtentX(polygonPoints))
        /\ RoundedMetres(landDepth', ExtentY(polygonPoints))]_vars

\* a sketch of two distinct positions submitted: the width is rounded (21.3 m
\* for 21.33 m), the depth (2.0 m) is raised to the minimum
C11_Witness ==
    /\ lastOp = Op("analyzePlot", "issued")
    /\ inputType = "draw"
    /\ Len(polygonPoints) >= 3
    /\ ExtentX(polygonPoints) = 640
    /\ landWidth = 213
    /\ landDepth = MIN_DIMENSION_METERS * DM
    /\ pending[Len(pending)].width = 213

\* C16: startOver sets step = input, analysisResult = null and errorMessage =
\* null and leaves the polygon points unchanged; afterwards analysisResult
\* becomes non-null only by the success of an analyzePlot invoked later (a
\* reply to a request that was not in flight at the last startOver).
C16_StartOverDiscards ==
    [][/\ lastOp'.name = "startOver" =>
            /\ step' = "input"
            /\ IsNull(analysisResult')
            /\ errorMessage' = NoMessage
            /\ polygonPoints' = polygonPoints
       /\ (IsNull(analysisResult) /\ ~IsNull(analysisResult')) =>
            /\ lastOp'.name = "reply"
            /\ stale' = stale]_vars

\* C17: the request describes as the west neighbour the value of
\* neighborWestFloors, and as the east neighbour the value of
\* neighborEastFloors.
C17_NeighborsUnswapped ==
    (lastOp = Op("analyzePlot", "issued")) =>
        /\ pending[Len(pending)].neighborWestFloors = neighborWestFloors
        /\ pending[Len(pending)].neighborEastFloors = neighborEastFloors

\* the two outcomes of an analysis
ResultStored == ~IsNull(analysisResult) /\ step = "result"
ErrorStored == errorMessage = MsgServiceError /\ step = "input"

\* C18: an analyzePlot that passes validation issues exactly one request, one
\* that fails validation issues none; each reply ends one request in exactly
\* one of the two outcomes and issues no request again; nothing else touches
\* the requests in flight.
C18_OneRequestOneOutcome ==
    [][/\ lastOp'.name = "analyzePlot" =>
            IF ValidationError = NoMessage
            THEN /\ lastOp'.outcome = "issued"
                 /\ Len(pending') = Len(pending) + 1
                 /\ SubSeq(pending', 1, Len(pending)) = pending
            ELSE /\ lastOp'.outcome = "rejected"
                 /\ pending' = pending
       /\ lastOp'.name = "reply" =>
            /\ Len(pending') = Len(pending) - 1
            /\ ResultStored' # ErrorStored'
            /\ ResultStored' <=> lastOp'.outcome = "success"
       /\ lastOp'.name \notin {"analyzePlot", "reply"} => pending' = pending]_vars

\* the only request failed and none is in flight afterwards
C18_Witness ==
    /\ lastOp.name = "reply"
    /\ lastOp.outcome = "failure"
    /\ pending = <<>>
    /\ ErrorStored

\* C19: the timer is started when an analysis begins, showing the first
\* message; each tick shows the next message of the list of 5, cyclically; and
\* once every analysis call has completed no timer remains active.
C19_TimerOnlyWhileLoading ==
    [][/\ lastOp' = Op("analyzePlot", "issued") =>
            /\ currentLoadingMessage' = 0
            /\ loadingInterval' \in DOMAIN timers'
       /\ lastOp'.name = "tick" =>
            currentLoadingMessage' = (currentLoadingMessage + 1) % LoadingMessageCount
       /\ pending' = <<>> => DOMAIN timers' = {}]_vars

\* roomGroup was built by createScene from the inputs of this state
SceneIsCurrent == sceneReady /\ sceneInputs = viewInputs
\* the building view of a result
BuildingShown ==
    SceneIsCurrent /\ viewInputs.viewType = "building" /\ viewInputs.result.t = "object"
\* the N of an N-floor building, and the plans of the result
TotalFloors == viewInputs.result.buildingSummary.totalFloors
FloorPlans == viewInputs.result.floorPlans.items
\* the objects of a kind in roomGroup, and those rendered at an elevation
ObjectsOf(kind) == { k \in 1..Len(roomGroup) : roomGroup[k].kind = kind }
ObjectsAt(kind, elevation) == { k \in ObjectsOf(kind) : roomGroup[k].elevation = elevation }

\* C12: in building view of an N-floor result, room boxes stand at exactly the
\* elevations i * FLOOR_HEIGHT for i = 0..N-1, there is exactly one slab at
\* each elevation i * FLOOR_HEIGHT for i = 1..N-1, exactly one roof slab at
\* N * FLOOR_HEIGHT, and no other slab.  (Every plan shown has a room that is
\* no void, so a rendered level has a box.)
C12_LevelsAndSlabs ==
    BuildingShown =>
        /\ { roomGroup[k].elevation : k \in ObjectsOf("box") }
              = { i * FLOOR_HEIGHT : i \in 0..(TotalFloors - 1) }
        /\ \A i \in 1..(TotalFloors - 1) :
              Cardinality(ObjectsAt("slab", i * FLOOR_HEIGHT)) = 1
        /\ Cardinality(ObjectsAt("slab", TotalFloors * FLOOR_HEIGHT)) = 1
        /\ \A k \in ObjectsOf("slab") :
              roomGroup[k].elevation \in { i * FLOOR_HEIGHT : i \in 1..TotalFloors }
                                           \cup { TotalFloors * FLOOR_HEIGHT }

\* a response of 3 floors and 3 plans shown: 3 levels, 2 inter-floor slabs and
\* the roof slab
C12_Witness ==
    /\ BuildingShown
    /\ TotalFloors = 3
    /\ Len(FloorPlans) = 3
    /\ Cardinality({ roomGroup[k].elevation : k \in ObjectsOf("box") }) = 3
    /\ Cardinality(ObjectsOf("slab")) = 3
    /\ ObjectsAt("slab", 3 * FLOOR_HEIGHT) # {}

\* the plans C13 names: the first plan of level 0, else the first plan; the
\* first plan above level 0 if there are several plans and one is above level
\* 0, else the first plan
FirstWhere(plans, levels) ==
    plans[CHOOSE k \in 1..Len(plans) :
            /\ plans[k].level \in levels
            /\ \A j \in 1..(k - 1) : plans[j].level \notin levels]
ExpectedGround ==
    IF \E k \in 1..Len(FloorPlans) : FloorPlans[k].level = 0
    THEN FirstWhere(FloorPlans, {0})
    ELSE FloorPlans[1]
ExpectedTypical ==
    IF Len(FloorPlans) > 1 /\ (\E k \in 1..Len(FloorPlans) : FloorPlans[k].level > 0)
    THEN FirstWhere(FloorPlans, { l \in Nat : l > 0 /\ l <= MaxFloors + 1 })
    ELSE FloorPlans[1]

\* C13: in building view, level 0 is rendered from the ground plan, every
\* level i >= 1 and every slab (the roof slab too) from the typical plan, and
\* every level below N is rendered whatever the levels of the plans are.
C13_GroundAndTypical ==
    BuildingShown =>
        /\ \A k \in ObjectsAt("box", 0) : roomGroup[k].rooms = ExpectedGround.rooms
        /\ \A i \in 1..(TotalFloors - 1) :
              /\ ObjectsAt("box", i * FLOOR_HEIGHT) # {}
              /\ \A k \in ObjectsAt("box", i * FLOOR_HEIGHT) :
                    roomGroup[k].rooms = ExpectedTypical.rooms
        /\ TotalFloors >= 1 => ObjectsAt("box", 0) # {}
        /\ \A k \in ObjectsOf("slab") : roomGroup[k].rooms = ExpectedTypical.rooms

\* plans of levels 0 and 3 shown for 3 floors: levels 1 and 2 are rendered,
\* from the plan of level 3
C13_Witness ==
    /\ BuildingShown
    /\ FloorPlans = <<GroundPlan, ThirdPlan>>
    /\ TotalFloors = 3
    /\ \E k \in ObjectsAt("box", FLOOR_HEIGHT) : roomGroup[k].rooms = ThirdPlan.rooms
    /\ \E k \in ObjectsAt("box", 2 * FLOOR_HEIGHT) : roomGroup[k].rooms = ThirdPlan.rooms
    /\ \E k \in ObjectsAt("box", 0) : roomGroup[k].rooms = GroundPlan.rooms

\* the rooms of a plan that are no void, by index
SolidRooms(rooms) == { j \in 1..Len(rooms) : rooms[j] # "void" }

\* C14: every slab has one piece per room of its plan that is no void and none
\* for a void; in building view no box shows a void; in single-floor view
\* every room of the plan has exactly one box, the box of a void with the
\* wireframe material and no other box with it.
C14_Voids ==
    SceneIsCurrent =>
        /\ \A k \in ObjectsOf("slab") :
              /\ Len(roomGroup[k].pieces) = Cardinality(SolidRooms(roomGroup[k].rooms))
              /\ \A j \in 1..Len(roomGroup[k].pieces) : roomGroup[k].pieces[j] # "void"
        /\ viewInputs.viewType = "building" =>
              \A k \in ObjectsOf("box") : roomGroup[k].room # "void"
        /\ (viewInputs.viewType = "single" /\ viewInputs.plan.t = "plan") =>
              /\ Cardinality(ObjectsOf("box")) = Len(viewInputs.plan.rooms)
              /\ \A j \in 1..Len(viewInputs.plan.rooms) :
                    \E k \in ObjectsOf("box") :
                        /\ roomGroup[k].index = j
                        /\ roomGroup[k].room = viewInputs.plan.rooms[j]
                        /\ roomGroup[k].material = "wireframe"
                              <=> viewInputs.plan.rooms[j] = "void"

\* a plan with a void shown in single-floor view: the void has its wireframe box
C14_Witness ==
    /\ SceneIsCurrent
    /\ viewInputs.viewType = "single"
    /\ viewInputs.plan = ThirdPlan
    /\ \E k \in ObjectsOf("box") :
          roomGroup[k].room = "void" /\ roomGroup[k].material = "wireframe"

\* C15: after ngOnDestroy every rendering resource the component acquired has
\* been released.
C15_AllReleased == destroyed => resources = {}

\* the children of a group but for the rebuild that created them
Content(group) == [k \in 1..Len(group) |-> [group[k] EXCEPT !.gen = 0]]

\* C20: after createScene every object of roomGroup was created by this run,
\* for the current plot size, and a run on the inputs the run before it read
\* leaves the same content.
C20_RebuiltFromScratch ==
    [][lastOp'.name = "createScene" =>
        /\ \A k \in 1..Len(roomGroup') :
              /\ roomGroup'[k].gen = rebuilds'
              /\ roomGroup'[k].land = [w |-> viewInputs'.landWidth, d |-> viewInputs'.landDepth]
        /\ (sceneReady /\ sceneInputs = viewInputs') =>
              Content(roomGroup') = Content(roomGroup)]_vars

\* the scene of a building rebuilt by the effect: only objects of this rebuild
C20_Witness ==
    /\ lastOp = Op("createScene", "effect")
    /\ rebuilds >= 2
    /\ BuildingShown
    /\ Len(roomGroup) > 3
    /\ \A k \in 1..Len(roomGroup) : roomGroup[k].gen = rebuilds

\* C21 as stated: a canvas click while step = input and inputType = draw adds
\* exactly one point, at the end, and leaves the earlier points and their
\* order as they were; a click in any other step or input type leaves
\* polygonPoints unchanged.
C21_ClickAppends ==
    [][lastOp'.name = "onCanvasClick" =>
        IF step = "input" /\ inputType = "draw"
        THEN /\ Len(polygonPoints') = Len(polygonPoints) + 1
             /\ \A k \in 1..Len(polygonPoints) : polygonPoints'[k] = polygonPoints[k]
             /\ polygonPoints'[Len(polygonPoints')] \in ClickPoints
        ELSE polygonPoints' = polygonPoints]_vars

\* C21 amended: a canvas click while step = input and inputType = draw, the
\* canvas element being resolved, adds exactly one point, at the end, and
\* leaves the earlier points and their order as they were; any other canvas
\* click leaves polygonPoints unchanged.
C21_ClickAppendsOnCanvas ==
    [][lastOp'.name = "onCanvasClick" =>
        IF step = "input" /\ inputType = "draw" /\ lastOp'.outcome # "no canvas"
        THEN /\ Len(polygonPoints') = Len(polygonPoints) + 1
             /\ \A k \in 1..Len(polygonPoints) : polygonPoints'[k] = polygonPoints[k]
             /\ polygonPoints'[Len(polygonPoints')] \in ClickPoints
        ELSE polygonPoints' = polygonPoints]_vars

\* a click added a point to a sketch whose first two points differ
C21_Witness ==
    /\ lastOp = Op("onCanvasClick", "added")
    /\ Len(polygonPoints) >= 3
    /\ polygonPoints[1] # polygonPoints[2]

\* C22: whenever step = result, the stored analysisResult is the reply to the
\* request issued last.
C22_ResultOfLatestRequest == step = "result" => latestRequest = "stored"

\* C23: step = result implies errorMessage is null, and errorMessage non-null
\* implies analysisResult is null.
C23_ErrorXorResult ==
    /\ step = "result" => errorMessage = NoMessage
    /\ errorMessage # NoMessage => IsNull(analysisResult)

=============================================================================
